---------------------------- MODULE Spec2Model ----------------------------
(***************************************************************************)
(* A model of src/stock.py: Trade, Stock (CommonStock, PreferredStock) and *)
(* StockExchange.                                                          *)
(*                                                                         *)
(* Numbers.  Python's true division and float arithmetic are modelled by   *)
(* exact rationals [num, den] in lowest terms with den > 0, so that equal  *)
(* values are equal records.  Rounding of IEEE doubles is not modelled.    *)
(* product ** (1.0 / n) is kept symbolically as the record                 *)
(* [radicand |-> product, degree |-> n].  Every value a call can produce   *)
(* is a record: None, a raised error, a number, a Trade, a reference to a  *)
(* Stock object.                                                           *)
(*                                                                         *)
(* Time.  datetime.datetime.now() is the variable now, in minutes.  One    *)
(* call reads the clock once.                                              *)
(*                                                                         *)
(* Specifications.  Spec: the exchange and the trades of three             *)
(* instruments.  SpecDerive: get_dividend, calculate_dividend_yield and    *)
(* calculate_pe_ratio on every pair of instruments of the input sets.      *)
(* SpecAll: every operation, and main's backdating of a recorded trade, on *)
(* one instrument.  LiveSpec: Spec's operations on two instruments, under  *)
(* a clock that does not stop.                                             *)
(***************************************************************************)
EXTENDS Integers, Sequences, FiniteSets

VARIABLES
    now,      \* the clock read by datetime.datetime.now(), in minutes
    objs,     \* the heap: object id -> Stock object (its fields and trades)
    stocks,   \* StockExchange.stocks: the dict, as <<symbol, object id>> in insertion order
    added,    \* history: symbol -> object id of the latest add_stock under it, or None
    ret       \* the call that has just returned: its operation, arguments and result

vars == <<now, objs, stocks, added, ret>>

BUY == "BUY"
SELL == "SELL"
None == [none |-> TRUE]
\* a raised exception, as the outcome of the call that raises it
ValueError == [error |-> "ValueError"]
ZeroDivisionError == [error |-> "ZeroDivisionError"]
\* a reference to the Stock object id
Ref(id) == [ref |-> id]

\* ------------------------------------------------------------------ bounds

\* The clock stops at MaxClock.
MaxClock == 7
\* No more than MaxTrades trades are recorded in all.
MaxTrades == 2

\* ------------------------------------------------------- program constants

\* timedelta(minutes=5) of calculate_volume_weighted_stock_price
Window == 5
\* timedelta(minutes=6) of main's backdated trade
BackdateBy == 6

\* --------------------------------------------------------------- rationals

RECURSIVE GCD(_, _)
GCD(a, b) == IF b = 0 THEN a ELSE GCD(b, a % b)

Abs(k) == IF k < 0 THEN -k ELSE k

\* n / d in lowest terms, d # 0
Frac(n, d) ==
    LET g == GCD(Abs(n), Abs(d))
        s == IF d < 0 THEN -1 ELSE 1
    IN  [num |-> (s * n) \div g, den |-> (s * d) \div g]

R(k) == [num |-> k, den |-> 1]
RMul(x, y) == Frac(x.num * y.num, x.den * y.den)
\* Python's x / y
RDiv(x, y) ==
    IF y.num = 0 THEN ZeroDivisionError ELSE Frac(x.num * y.den, x.den * y.num)
RLeZero(x) == x.num <= 0
RIsZero(x) == x.num = 0
RGtZero(x) == x.num > 0


\* ------------------------------------------------------------------- Trade

\* Trade.__init__ with "and" for "or" in its validation
TradeBothInvalid(timestamp, quantity, indicator, price) ==
    IF quantity <= 0 /\ price <= 0
    THEN ValueError
    ELSE [timestamp |-> timestamp, quantity |-> quantity,
          indicator |-> indicator, price |-> price]

\* Trade.__init__: the constructed object, or the error it raises
Trade(timestamp, quantity, indicator, price) ==
    IF quantity <= 0 \/ price <= 0
    THEN ValueError
    ELSE [timestamp |-> timestamp, quantity |-> quantity,
          indicator |-> indicator, price |-> price]

\* ------------------------------------------------------------------- Stock

\* CommonStock.__init__ (with Stock.__init__)
CommonStock(symbol, par_value, last_dividend) ==
    [kind |-> "CommonStock", symbol |-> symbol, par_value |-> par_value,
     trades |-> <<>>, last_dividend |-> last_dividend]

\* PreferredStock.__init__ (with Stock.__init__)
PreferredStock(symbol, par_value, last_dividend, fixed_dividend_rate) ==
    [kind |-> "PreferredStock", symbol |-> symbol, par_value |-> par_value,
     trades |-> <<>>, last_dividend |-> last_dividend,
     fixed_dividend_rate |-> fixed_dividend_rate]

\* CommonStock.get_dividend
CommonGetDividend(self) == R(self.last_dividend)

\* PreferredStock.get_dividend adding the last dividend, as a Common stock pays it
PreferredGetDividendWithLast(self) ==
    Frac(self.fixed_dividend_rate.num * self.par_value
           + self.last_dividend * self.fixed_dividend_rate.den,
         self.fixed_dividend_rate.den)

\* PreferredStock.get_dividend
PreferredGetDividend(self) == RMul(self.fixed_dividend_rate, R(self.par_value))

\* self.get_dividend(), dispatched on the object's class
get_dividend(self) ==
    IF self.kind = "CommonStock"
    THEN CommonGetDividend(self)
    ELSE PreferredGetDividend(self)

\* CommonStock.calculate_dividend_yield
CommonDividendYield(self, price) ==
    IF RLeZero(price) THEN None ELSE RDiv(R(self.last_dividend), price)

\* PreferredStock.calculate_dividend_yield copied from CommonStock
PreferredDividendYieldAsCommon(self, price) ==
    IF RLeZero(price) THEN None ELSE RDiv(R(self.last_dividend), price)

\* PreferredStock.calculate_dividend_yield
PreferredDividendYield(self, price) ==
    IF RLeZero(price)
    THEN None
    ELSE RDiv(RMul(self.fixed_dividend_rate, R(self.par_value)), price)

\* self.calculate_dividend_yield(price), dispatched on the object's class
calculate_dividend_yield(self, price) ==
    IF self.kind = "CommonStock"
    THEN CommonDividendYield(self, price)
    ELSE PreferredDividendYield(self, price)

\* Stock.calculate_pe_ratio without its test of a zero dividend
calculate_pe_ratioNoZeroTest(self, price) ==
    IF RLeZero(price) THEN None ELSE RDiv(price, get_dividend(self))

\* Stock.calculate_pe_ratio
calculate_pe_ratio(self, price) ==
    IF RLeZero(price)
    THEN None
    ELSE LET dividend == get_dividend(self)
         IN  IF RIsZero(dividend) THEN None ELSE RDiv(price, dividend)

\* Stock.record_trade inserting the trade at the head of the log
record_tradeAtHead(self, trade) ==
    IF trade = ValueError THEN self.trades ELSE <<trade>> \o self.trades

\* Stock.record_trade appending whatever the constructor produced
record_tradeUnchecked(self, trade) == Append(self.trades, trade)

\* Stock.record_trade: the new trade log of self
record_trade(self, trade) ==
    IF trade = ValueError THEN self.trades ELSE Append(self.trades, trade)

\* the list comprehension without its condition
RecentTradesAll(trades, cutoff_time) == trades

\* the list comprehension with ">" for ">="
RecentTradesStrict(trades, cutoff_time) ==
    SelectSeq(trades, LAMBDA t : t.timestamp > cutoff_time)

\* the list comprehension of calculate_volume_weighted_stock_price
RecentTrades(trades, cutoff_time) ==
    SelectSeq(trades, LAMBDA t : t.timestamp >= cutoff_time)

\* the loop's total_value
RECURSIVE TotalValue(_)
TotalValue(recent_trades) ==
    IF recent_trades = <<>>
    THEN 0
    ELSE LET trade == recent_trades[Len(recent_trades)]
         IN  TotalValue(SubSeq(recent_trades, 1, Len(recent_trades) - 1))
               + trade.price * trade.quantity

\* the loop's total_quantity
RECURSIVE TotalQuantity(_)
TotalQuantity(recent_trades) ==
    IF recent_trades = <<>>
    THEN 0
    ELSE TotalQuantity(SubSeq(recent_trades, 1, Len(recent_trades) - 1))
           + recent_trades[Len(recent_trades)].quantity

\* Stock.calculate_volume_weighted_stock_price, the clock reading t
calculate_volume_weighted_stock_price(self, t) ==
    LET cutoff_time == t - Window
        recent_trades == RecentTrades(self.trades, cutoff_time)
    IN  IF recent_trades = <<>>
        THEN None
        ELSE LET total_value == TotalValue(recent_trades)
                 total_quantity == TotalQuantity(recent_trades)
             IN  IF total_quantity = 0
                 THEN None
                 ELSE Frac(total_value, total_quantity)

\* ----------------------------------------------------------- StockExchange

\* the position of key in the dict d, or 0
DictIndex(d, key) ==
    IF \E i \in 1..Len(d) : d[i][1] = key
    THEN CHOOSE i \in 1..Len(d) : d[i][1] = key
    ELSE 0

\* d[key] = value: a key already present keeps its position
DictSet(d, key, value) ==
    LET i == DictIndex(d, key)
    IN  IF i = 0 THEN Append(d, <<key, value>>) ELSE [d EXCEPT ![i] = <<key, value>>]

\* StockExchange.add_stock as dict.setdefault: a symbol already present keeps its entry
add_stockKeepFirst(d, stock, id) ==
    IF DictIndex(d, stock.symbol) = 0 THEN DictSet(d, stock.symbol, id) ELSE d

\* StockExchange.add_stock: the new self.stocks
add_stock(d, stock, id) == DictSet(d, stock.symbol, id)

\* StockExchange.get_stock
get_stock(d, symbol) ==
    LET i == DictIndex(d, symbol)
    IN  IF i = 0 THEN None ELSE Ref(d[i][2])

\* the first loop of calculate_gbce_all_share_index: vwsp_values
RECURSIVE VwspValues(_, _, _)
VwspValues(d, heap, t) ==
    IF d = <<>>
    THEN <<>>
    ELSE LET rest == VwspValues(SubSeq(d, 1, Len(d) - 1), heap, t)
             vwsp == calculate_volume_weighted_stock_price(heap[d[Len(d)][2]], t)
         IN  IF vwsp # None /\ RGtZero(vwsp) THEN Append(rest, vwsp) ELSE rest

\* the second loop: product
RECURSIVE Product(_)
Product(vwsp_values) ==
    IF vwsp_values = <<>>
    THEN R(1)
    ELSE RMul(Product(SubSeq(vwsp_values, 1, Len(vwsp_values) - 1)),
              vwsp_values[Len(vwsp_values)])

\* product ** (1.0 / n)
Root(product, n) == [radicand |-> product, degree |-> n]

\* calculate_gbce_all_share_index with n the number of registered stocks
calculate_gbce_all_share_indexCountAll(d, heap, t) ==
    LET vwsp_values == VwspValues(d, heap, t)
    IN  IF vwsp_values = <<>>
        THEN None
        ELSE LET n == Len(d)
             IN  Root(Product(vwsp_values), n)

\* StockExchange.calculate_gbce_all_share_index, every VWSP at the clock reading t
calculate_gbce_all_share_index(d, heap, t) ==
    LET vwsp_values == VwspValues(d, heap, t)
    IN  IF vwsp_values = <<>>
        THEN None
        ELSE LET n == Len(vwsp_values)
             IN  Root(Product(vwsp_values), n)


\* ------------------------------------------------------------------ inputs

Symbols == {"TEA", "GIN"}
\* a symbol no instrument carries
UnlistedSymbol == "JOE"
\* the arguments <<quantity, indicator, price>> of record_trade: two valid trades of
\* different quantity and price, and the invalid ones
Orders == {<<2, BUY, 1>>, <<1, SELL, 3>>, <<0, BUY, 1>>, <<1, SELL, -1>>}
\* the price arguments of calculate_dividend_yield and calculate_pe_ratio
PriceArgs == {R(-1), R(0), Frac(3, 2)}
ParValues == {2, 4}
LastDividends == {0, 3}
FixedDividendRates == {R(0), Frac(1, 2)}

\* every instrument the constructors build from these inputs
Instruments ==
    {CommonStock(s, p, l) : s \in Symbols, p \in ParValues, l \in LastDividends}
    \cup
    {PreferredStock(s, p, l, r) :
        s \in Symbols, p \in ParValues, l \in LastDividends, r \in FixedDividendRates}

\* the instruments of the market: a Common one, and two Preferred ones under one
\* symbol that differ in last_dividend only
Listing ==
    <<CommonStock("TEA", 2, 0),
      PreferredStock("GIN", 4, 0, Frac(1, 2)),
      PreferredStock("GIN", 4, 3, Frac(1, 2))>>

\* record_trade is called up to this time, so that the clock outlives every window
TradingClose == MaxClock - Window - 1

\* ------------------------------------------------------------------ states

NoCall == [op |-> "none"]

\* main: StockExchange() and the instruments, before any is registered
Init ==
    /\ now = 0
    /\ objs = Listing
    /\ stocks = <<>>
    /\ added = [s \in Symbols |-> None]
    /\ ret = NoCall

\* two instruments built from any of the inputs, and no exchange activity
InitDerive ==
    /\ now = 0
    /\ objs \in [1..2 -> Instruments]
    /\ stocks = <<>>
    /\ added = [s \in Symbols |-> None]
    /\ ret = NoCall

\* a market of one Common and one Preferred instrument
InitPair ==
    /\ now = 0
    /\ objs = <<Listing[1], Listing[2]>>
    /\ stocks = <<>>
    /\ added = [s \in Symbols |-> None]
    /\ ret = NoCall

\* a market of one Preferred instrument
InitOne ==
    /\ now = 0
    /\ objs = <<Listing[2]>>
    /\ stocks = <<>>
    /\ added = [s \in Symbols |-> None]
    /\ ret = NoCall

\* ----------------------------------------------------------------- actions

\* the clock advances by a minute; a result belongs to the minute it was returned in
Tick ==
    /\ now < MaxClock
    /\ now' = now + 1
    /\ ret' = NoCall
    /\ UNCHANGED <<objs, stocks, added>>

\* gbce.add_stock(objs[o])
AddStock(o) ==
    /\ stocks' = add_stock(stocks, objs[o], o)
    /\ added' = [added EXCEPT ![objs[o].symbol] = Ref(o)]
    /\ ret' = [op |-> "add_stock", obj |-> o,
               replaced |-> get_stock(stocks, objs[o].symbol), val |-> None]
    /\ UNCHANGED <<now, objs>>

\* gbce.get_stock(symbol)
GetStock(symbol) ==
    /\ ret' = [op |-> "get_stock", symbol |-> symbol, val |-> get_stock(stocks, symbol)]
    /\ UNCHANGED <<now, objs, stocks, added>>

\* objs[o].get_dividend()
GetDividend(o) ==
    /\ ret' = [op |-> "get_dividend", obj |-> o, val |-> get_dividend(objs[o])]
    /\ UNCHANGED <<now, objs, stocks, added>>

\* objs[o].calculate_dividend_yield(price)
CalculateDividendYield(o, price) ==
    /\ ret' = [op |-> "calculate_dividend_yield", obj |-> o, price |-> price,
               val |-> calculate_dividend_yield(objs[o], price)]
    /\ UNCHANGED <<now, objs, stocks, added>>

\* objs[o].calculate_pe_ratio(price)
CalculatePeRatio(o, price) ==
    /\ ret' = [op |-> "calculate_pe_ratio", obj |-> o, price |-> price,
               val |-> calculate_pe_ratio(objs[o], price)]
    /\ UNCHANGED <<now, objs, stocks, added>>

\* the number of trades recorded so far, on all instruments
RECURSIVE TradeCount(_)
TradeCount(heap) ==
    IF heap = <<>>
    THEN 0
    ELSE TradeCount(SubSeq(heap, 1, Len(heap) - 1)) + Len(heap[Len(heap)].trades)

\* objs[o].record_trade(quantity, indicator, price)
RecordTrade(o, quantity, indicator, price) ==
    /\ now <= TradingClose
    /\ TradeCount(objs) < MaxTrades
    /\ LET trade == Trade(now, quantity, indicator, price)
       IN  /\ objs' = [objs EXCEPT ![o].trades = record_trade(objs[o], trade)]
           /\ ret' = [op |-> "record_trade", obj |-> o, quantity |-> quantity,
                      indicator |-> indicator, price |-> price, val |-> trade]
    /\ UNCHANGED <<now, stocks, added>>

\* main: trade_old.timestamp = datetime.datetime.now() - timedelta(minutes=6),
\* on the trade record_trade has just returned
BackdateTrade ==
    /\ ret.op = "record_trade"
    /\ ret.val # ValueError
    /\ LET o == ret.obj
           i == Len(objs[o].trades)
       IN  /\ objs' = [objs EXCEPT ![o].trades[i].timestamp = now - BackdateBy]
           /\ ret' = [op |-> "backdate", obj |-> o, val |-> objs'[o].trades[i]]
    /\ UNCHANGED <<now, stocks, added>>

\* objs[o].calculate_volume_weighted_stock_price()
CalculateVwsp(o) ==
    /\ ret' = [op |-> "calculate_volume_weighted_stock_price", obj |-> o,
               val |-> calculate_volume_weighted_stock_price(objs[o], now)]
    /\ UNCHANGED <<now, objs, stocks, added>>

\* gbce.calculate_gbce_all_share_index()
CalculateIndex ==
    /\ ret' = [op |-> "calculate_gbce_all_share_index",
               val |-> calculate_gbce_all_share_index(stocks, objs, now)]
    /\ UNCHANGED <<now, objs, stocks, added>>

Derive ==
    \E o \in DOMAIN objs :
        \/ GetDividend(o)
        \/ \E price \in PriceArgs : CalculateDividendYield(o, price)
        \/ \E price \in PriceArgs : CalculatePeRatio(o, price)

Next ==
    \/ Tick
    \/ \E o \in DOMAIN objs : AddStock(o)
    \/ \E symbol \in Symbols \cup {UnlistedSymbol} : GetStock(symbol)
    \/ \E o \in DOMAIN objs, order \in Orders :
          RecordTrade(o, order[1], order[2], order[3])
    \/ \E o \in DOMAIN objs : CalculateVwsp(o)
    \/ CalculateIndex

Spec == Init /\ [][Next]_vars

\* the exchange and the trades, the derivations, and main's backdating of a trade
NextAll == Next \/ Derive \/ BackdateTrade

SpecAll == InitOne /\ [][NextAll]_vars

\* the derivations alone, over every instrument
SpecDerive == InitDerive /\ [][Derive]_vars

\* time does not stop
LiveSpec == InitPair /\ [][Next]_vars /\ WF_vars(Tick)


\* ================================================================== claims

\* the instruments of InitPair
PairIds == {1, 2}

\* the sum of f[i] over the finite set S
RECURSIVE SumOver(_, _)
SumOver(S, f) ==
    IF S = {} THEN 0 ELSE LET i == CHOOSE j \in S : TRUE IN f[i] + SumOver(S \ {i}, f)

\* the rational x is the quotient n / d of two integers, d # 0
IsQuotient(x, n, d) == x \in [num : Int, den : Int] /\ x.den # 0 /\ x.num * d = n * x.den
\* the rational x is the quotient of the rationals a and b, b # 0
IsRatio(x, a, b) == IsQuotient(x, a.num * b.den, a.den * b.num)

\* C1: constructing a Trade with quantity <= 0 or price <= 0 fails with the
\* validation error, and every Trade held in a trade log has quantity > 0 and
\* price > 0.
C1_TradesPositive ==
    /\ \A o \in DOMAIN objs : \A i \in 1..Len(objs[o].trades) :
          objs[o].trades[i].quantity > 0 /\ objs[o].trades[i].price > 0
    /\ (ret.op = "record_trade" /\ (ret.quantity <= 0 \/ ret.price <= 0))
          => ret.val = ValueError

\* a record_trade has failed on an instrument that holds a trade
C1_Witness ==
    /\ ret.op = "record_trade"
    /\ ret.quantity <= 0 \/ ret.price <= 0
    /\ ret.val = ValueError
    /\ Len(objs[ret.obj].trades) > 0

\* C2: a record_trade with quantity <= 0 or price <= 0 raises and leaves every trade
\* log as it was; one with quantity > 0 and price > 0 appends exactly one Trade with
\* those values and the current clock time at the end of the log and returns it.
C2_RecordTrade ==
    [][ret'.op = "record_trade" =>
        LET o == ret'.obj
        IN  IF ret'.quantity <= 0 \/ ret'.price <= 0
            THEN /\ ret'.val = ValueError
                 /\ objs' = objs
            ELSE /\ ret'.val = [timestamp |-> now, quantity |-> ret'.quantity,
                                indicator |-> ret'.indicator, price |-> ret'.price]
                 /\ objs'[o].trades = Append(objs[o].trades, ret'.val)
                 /\ \A other \in DOMAIN objs \ {o} : objs'[other] = objs[other]
                 /\ DOMAIN objs' = DOMAIN objs
                 /\ now' = now]_vars

\* a record_trade has appended its trade behind an earlier one and returned it
C2_Witness ==
    /\ ret.op = "record_trade"
    /\ ret.val # ValueError
    /\ Len(objs[ret.obj].trades) = 2
    /\ objs[ret.obj].trades[2] = ret.val
    /\ objs[ret.obj].trades[1] # ret.val

\* the positions of the trades of a log with timestamp >= t - 5 minutes
InWindow(trades, t) == {i \in 1..Len(trades) : trades[i].timestamp >= t - Window}

\* C3: calculate_volume_weighted_stock_price returns None exactly when no trade of
\* the log has timestamp >= now - 5 minutes, and otherwise the sum of price * quantity
\* over the sum of quantity, both over exactly the trades with timestamp >= now - 5
\* minutes.
C3_Vwsp ==
    ret.op = "calculate_volume_weighted_stock_price" =>
        LET trades == objs[ret.obj].trades
            W == InWindow(trades, now)
            value == [i \in W |-> trades[i].price * trades[i].quantity]
            quantity == [i \in W |-> trades[i].quantity]
        IN  /\ (ret.val = None) <=> (W = {})
            /\ W # {} => IsQuotient(ret.val, SumOver(W, value), SumOver(W, quantity))

\* a VWSP computed from a trade exactly 5 minutes old, with an older trade left out
C3_Witness ==
    /\ ret.op = "calculate_volume_weighted_stock_price"
    /\ ret.val # None
    /\ \E i \in 1..Len(objs[ret.obj].trades) :
          objs[ret.obj].trades[i].timestamp = now - Window
    /\ \E i \in 1..Len(objs[ret.obj].trades) :
          objs[ret.obj].trades[i].timestamp < now - Window


\* the product of the numerators (part = "num") or denominators ("den") of the
\* rationals f[i], over the finite set S
RECURSIVE ProductOver(_, _, _)
ProductOver(S, f, part) ==
    IF S = {}
    THEN 1
    ELSE LET i == CHOOSE j \in S : TRUE IN f[i][part] * ProductOver(S \ {i}, f, part)

\* every ordering of the entries of the sequence d
Orderings(d) ==
    {[i \in 1..Len(d) |-> d[p[i]]] :
        p \in {q \in [1..Len(d) -> 1..Len(d)] : \A i, j \in 1..Len(d) : q[i] = q[j] => i = j}}

\* val is the geometric mean of the present, strictly positive VWSP values of the
\* instruments ids, or None when there is none
IsIndexOf(val, ids) ==
    LET vwsp == [o \in ids |-> calculate_volume_weighted_stock_price(objs[o], now)]
        P == {o \in ids : vwsp[o] # None /\ vwsp[o].num > 0}
    IN  /\ (val = None) <=> (P = {})
        /\ P # {} =>
              /\ val.degree = Cardinality(P)
              /\ IsQuotient(val.radicand, ProductOver(P, vwsp, "num"),
                            ProductOver(P, vwsp, "den"))

\* the instruments the registry holds
Registered == {stocks[i][2] : i \in 1..Len(stocks)}

\* C7: calculate_gbce_all_share_index returns None when no registered instrument has a
\* positive VWSP, and otherwise the n-th root of the product of the present, strictly
\* positive VWSP values of the registered instruments, n the number of those values;
\* the result is the same for every order of registration.
C7_AllShareIndex ==
    ret.op = "calculate_gbce_all_share_index" =>
        /\ IsIndexOf(ret.val, Registered)
        /\ \A d \in Orderings(stocks) :
              calculate_gbce_all_share_index(d, objs, now) = ret.val

\* an index over two registered instruments of different VWSP
C7_Witness ==
    /\ ret.op = "calculate_gbce_all_share_index"
    /\ Len(stocks) = 2
    /\ ret.val # None
    /\ ret.val.degree = 2
    /\ calculate_volume_weighted_stock_price(objs[stocks[1][2]], now)
         # calculate_volume_weighted_stock_price(objs[stocks[2][2]], now)

\* the instruments added latest under their symbols
LatestAdded == {added[s].ref : s \in {x \in Symbols : added[x] # None}}

\* C8: get_stock(symbol) returns the instrument added latest under that symbol, and
\* None for a symbol never added; add_stock replaces the entry of its symbol and leaves
\* those of the other symbols; a replaced instrument no longer counts in the index.
C8_Registry ==
    /\ \A s \in Symbols : get_stock(stocks, s) = added[s]
    /\ get_stock(stocks, UnlistedSymbol) = None
    /\ ret.op = "get_stock" =>
          ret.val = (IF ret.symbol \in Symbols THEN added[ret.symbol] ELSE None)
    /\ ret.op = "add_stock" =>
          /\ ret.val = None
          /\ get_stock(stocks, objs[ret.obj].symbol) = Ref(ret.obj)
    /\ ret.op = "calculate_gbce_all_share_index" => IsIndexOf(ret.val, LatestAdded)

\* add_stock has replaced the entry of another instrument of the same symbol, next to
\* the entry of another symbol
C8_Witness ==
    /\ ret.op = "add_stock"
    /\ ret.replaced \notin {None, Ref(ret.obj)}
    /\ Len(stocks) = 2
    /\ get_stock(stocks, objs[ret.obj].symbol) = Ref(ret.obj)


\* the dividend of an instrument, as a numerator and a denominator: last_dividend of
\* a Common one, fixed_dividend_rate * par_value of a Preferred one
DividendNum(self) ==
    IF self.kind = "CommonStock"
    THEN self.last_dividend
    ELSE self.fixed_dividend_rate.num * self.par_value
DividendDen(self) ==
    IF self.kind = "CommonStock" THEN 1 ELSE self.fixed_dividend_rate.den

\* C4: for both variants, calculate_pe_ratio(price) returns None when price <= 0 or
\* the instrument's dividend is exactly 0, and otherwise price / dividend; it never
\* ends in a division error.
C4_PeRatio ==
    ret.op = "calculate_pe_ratio" =>
        LET self == objs[ret.obj]
            price == ret.price
        IN  /\ ret.val # ZeroDivisionError
            /\ IF price.num <= 0 \/ DividendNum(self) = 0
               THEN ret.val = None
               ELSE IsQuotient(ret.val, price.num * DividendDen(self),
                               price.den * DividendNum(self))

\* a P/E ratio that is None at a positive price, on a Preferred instrument whose
\* dividend is 0 and whose last_dividend is not
C4_Witness ==
    /\ ret.op = "calculate_pe_ratio"
    /\ ret.price.num > 0
    /\ objs[ret.obj].kind = "PreferredStock"
    /\ objs[ret.obj].last_dividend # 0
    /\ ret.val = None

\* C5: calculate_dividend_yield(price) returns None for price <= 0 on both variants;
\* for price > 0 it returns last_dividend / price on a Common instrument and
\* (fixed_dividend_rate * par_value) / price on a Preferred one, which is
\* get_dividend() / price in both cases.
C5_DividendYield ==
    ret.op = "calculate_dividend_yield" =>
        LET self == objs[ret.obj]
            price == ret.price
        IN  IF price.num <= 0
            THEN ret.val = None
            ELSE /\ IsQuotient(ret.val, DividendNum(self) * price.den,
                               DividendDen(self) * price.num)
                 /\ IsRatio(ret.val, get_dividend(self), price)

\* a yield computed on a Preferred instrument whose last_dividend is not its dividend
C5_Witness ==
    /\ ret.op = "calculate_dividend_yield"
    /\ ret.val # None
    /\ objs[ret.obj].kind = "PreferredStock"
    /\ objs[ret.obj].last_dividend * DividendDen(objs[ret.obj]) # DividendNum(objs[ret.obj])

\* two Preferred instruments that differ in last_dividend at most
Twins(a, b) ==
    /\ a.kind = "PreferredStock"
    /\ b.kind = "PreferredStock"
    /\ [a EXCEPT !.last_dividend = b.last_dividend] = b

\* what the call recorded in ret returns on the instrument self
SameCallOn(self) ==
    CASE ret.op = "get_dividend" -> get_dividend(self)
      [] ret.op = "calculate_dividend_yield" -> calculate_dividend_yield(self, ret.price)
      [] ret.op = "calculate_pe_ratio" -> calculate_pe_ratio(self, ret.price)

\* C6: get_dividend of a Preferred instrument is fixed_dividend_rate * par_value, and
\* get_dividend, calculate_dividend_yield(price) and calculate_pe_ratio(price) return
\* the same on two Preferred instruments that differ in last_dividend only.
C6_PreferredIgnoresLastDividend ==
    ret.op \in {"get_dividend", "calculate_dividend_yield", "calculate_pe_ratio"} =>
        LET self == objs[ret.obj]
        IN  /\ (ret.op = "get_dividend" /\ self.kind = "PreferredStock") =>
                  IsQuotient(ret.val, self.fixed_dividend_rate.num * self.par_value,
                             self.fixed_dividend_rate.den)
            /\ \A other \in DOMAIN objs :
                  Twins(self, objs[other]) => SameCallOn(objs[other]) = ret.val

\* a P/E ratio computed on one of two Preferred instruments of different last_dividend
C6_Witness ==
    /\ ret.op = "calculate_pe_ratio"
    /\ ret.val \notin {None, ZeroDivisionError}
    /\ \E other \in DOMAIN objs :
          /\ Twins(objs[ret.obj], objs[other])
          /\ objs[other].last_dividend # objs[ret.obj].last_dividend


IsPrefix(a, b) == Len(a) <= Len(b) /\ SubSeq(b, 1, Len(a)) = a

ReadOnlyOps ==
    {"get_dividend", "calculate_dividend_yield", "calculate_pe_ratio",
     "calculate_volume_weighted_stock_price", "get_stock",
     "calculate_gbce_all_share_index"}

\* C9, as claimed: every trade log is a prefix of itself one step later (recorded
\* trades are never mutated, reordered or removed), it grows only through a successful
\* record_trade, and the read-only derivations leave every trade log and the registry
\* unchanged.
C9_AppendOnlyAsClaimed ==
    [][/\ \A o \in DOMAIN objs : IsPrefix(objs[o].trades, objs'[o].trades)
       /\ (objs' # objs) => (ret'.op = "record_trade" /\ ret'.val # ValueError)
       /\ ret'.op \in ReadOnlyOps => (objs' = objs /\ stocks' = stocks)]_vars

\* C9, amended: a trade log never shrinks and every recorded trade keeps its position,
\* quantity, indicator and price; only its timestamp may change, and only when the
\* caller backdates the trade record_trade has just returned; the log grows only
\* through a successful record_trade, by one trade at its end; the read-only
\* derivations leave every trade log and the registry unchanged.
C9_AppendOnlyButTimestamp ==
    [][/\ \A o \in DOMAIN objs :
            LET old == objs[o].trades
                new == objs'[o].trades
            IN  /\ Len(old) <= Len(new)
                /\ \A i \in 1..Len(old) :
                      /\ new[i] = [old[i] EXCEPT !.timestamp = new[i].timestamp]
                      /\ new[i].timestamp # old[i].timestamp =>
                            /\ ret.op = "record_trade"
                            /\ ret.val = old[i]
                            /\ ret.obj = o
                            /\ i = Len(old)
                            /\ ret'.op = "backdate"
                            /\ new[i].timestamp = now - BackdateBy
                /\ Len(new) > Len(old) =>
                      /\ ret'.op = "record_trade"
                      /\ ret'.obj = o
                      /\ new = Append(old, ret'.val)
       /\ ret'.op \in ReadOnlyOps => (objs' = objs /\ stocks' = stocks)]_vars

\* the second trade of a log has been backdated behind the first
C9_Witness ==
    /\ ret.op = "backdate"
    /\ Len(objs[ret.obj].trades) = 2
    /\ objs[ret.obj].trades[2].timestamp < objs[ret.obj].trades[1].timestamp
    /\ objs[ret.obj].trades[2].timestamp = now - BackdateBy

\* the instrument has no VWSP now
Absent(o) == calculate_volume_weighted_stock_price(objs[o], now) = None
\* the i-th trade of the instrument is older than 5 minutes
Expired(o, i) == objs[o].trades[i].timestamp < now - Window
\* the instrument without its trades older than 5 minutes
Unexpired(o) ==
    [objs[o] EXCEPT !.trades = SelectSeq(@, LAMBDA t : ~(t.timestamp < now - Window))]

\* C10: with the timestamps taken from the non-decreasing clock, a trade older than 5
\* minutes stays older than 5 minutes and does not count in the VWSP; right after a
\* successful record_trade the VWSP is present; a VWSP that is None stays None while no
\* further trade is recorded on the instrument, and once trading has stopped and the
\* clock goes on every VWSP becomes None for good; the index is None once that holds for
\* every registered instrument, and eventually it does for good.
C10_WindowMonotone ==
    /\ [][\A o \in DOMAIN objs : \A i \in 1..Len(objs[o].trades) :
             Expired(o, i) => Expired(o, i)']_vars
    /\ [](\A o \in DOMAIN objs :
             calculate_volume_weighted_stock_price(objs[o], now)
               = calculate_volume_weighted_stock_price(Unexpired(o), now))
    /\ []((ret.op = "record_trade" /\ ret.val # ValueError) => ~Absent(ret.obj))
    /\ \A o \in PairIds : <>[]Absent(o)
    /\ [][\A o \in DOMAIN objs :
             (Absent(o) /\ Len(objs'[o].trades) = Len(objs[o].trades)) => Absent(o)']_vars
    /\ []((\A o \in Registered : Absent(o))
             => calculate_gbce_all_share_index(stocks, objs, now) = None)
    /\ <>[](calculate_gbce_all_share_index(stocks, objs, now) = None)

\* an instrument whose trades have all left the window, next to a registered one
C10_Witness ==
    /\ \E o \in DOMAIN objs :
          /\ Len(objs[o].trades) = 2
          /\ objs[o].trades[1].timestamp < objs[o].trades[2].timestamp
          /\ Absent(o)
    /\ Len(stocks) = 2
    /\ ret.op = "calculate_gbce_all_share_index"
    /\ ret.val = None

=============================================================================
